---- MODULE Spec2Model ----
(***************************************************************************)
(* Model of the pod-event reconciliation engine of citus-manager           *)
(* (src/manager/manager.py, class Manager).                                *)
(*                                                                         *)
(* One control-flow path (Manager.run) consumes the watch stream and runs  *)
(* one handler per event.  The handler is modelled statement by statement  *)
(* with a program counter; every call to a collaborator (pod-status API,   *)
(* DBHandler, ConfigMonitor) is one step whose outcome the environment     *)
(* chooses.                                                                *)
(***************************************************************************)
EXTENDS Integers, FiniteSets, Bags, TLC

(* ---- bounds ---------------------------------------------------------- *)
NumPods == 2        \* pod names that occur in the event stream
MaxPolls == 1       \* retried polls of one gate are counted up to here

(* ---- configuration (self.conf) --------------------------------------- *)
minimum_workers == 2
pg_port == 5432
master_label == "master"
coordinator_label == "coordinator"
worker_label == "worker"
master_service == "master_service"
coordinator_service == "coordinator_service"
worker_service == "worker_service"

Pods == 1..NumPods

(* Event kinds the watch delivers; only ADDED and DELETED have handlers.   *)
EventTypes == {"ADDED", "DELETED", "MODIFIED"}
(* Values of the citusType label: the three roles, a foreign value and the *)
(* empty string that get_citus_type returns for a pod without the label.   *)
CitusTypes == {master_label, coordinator_label, worker_label, "other", ""}

Events == [type : EventTypes, citus_type : CitusTypes, pod_name : Pods]

(* Keys of self.pod_interactions and of each of its handler tables.        *)
pod_interactions == {"ADDED", "DELETED"}
handler == {master_label, coordinator_label, worker_label}

(* ---- pod-status API -------------------------------------------------- *)
(* What one call of request_pod_readiness can run into.                    *)
PollOutcomes == {"Ready", "NotReady", "NotFound", "ApiError", "Unreachable"}

(* The exception a poll ends with: read_namespaced_pod_status raises       *)
(* ApiException for every HTTP error response (404 for a missing pod       *)
(* included); `assert all(readiness)` raises AssertionError; a connection  *)
(* that cannot be established raises a transport error of another class.   *)
PollException(outcome) ==
    CASE outcome = "Ready" -> "none"
      [] outcome = "NotReady" -> "AssertionError"
      [] outcome = "NotFound" -> "ApiException"
      [] outcome = "ApiError" -> "ApiException"
      [] outcome = "Unreachable" -> "ConnectionError"

(* Retry predicates other than the one of the source.                      *)
retry_on_any_exception(exc) == TRUE
retry_on_no_exception(exc) == FALSE

(* retry_on_exception=lambda x: not isinstance(x, client.rest.ApiException) *)
retry_on_exception(exc) == exc # "ApiException"

(* ---- DBHandler ------------------------------------------------------- *)
(* Host-name resolution of a pod within a service scope.                   *)
get_host_name(pod, service) == <<pod, service>>

ADD_NODE == "SELECT master_add_node(%(host)s, %(port)s)"
REMOVE_NODE == "DELETE FROM pg_dist_shard_placement ...; SELECT master_remove_node(%(host)s, %(port)s)"
SET_COORDINATOR == "SELECT citus_set_coordinator_host(%(host)s)"

(* db_handler.execute_query(target, service, query, query_params)          *)
execute_query(target, service, query, query_params) ==
    [op |-> "execute_query", target |-> target, service |-> service,
     query |-> query, host |-> query_params.host, port |-> query_params.port]

(* query_params of exec_on_masters and exec_on_coordinators: the worker's  *)
(* host is resolved in the worker service scope.                           *)
worker_params_wrong_scope(worker_name) ==
    [host |-> get_host_name(worker_name, master_service), port |-> pg_port]

worker_query_params(worker_name) ==
    [host |-> get_host_name(worker_name, worker_service), port |-> pg_port]

(* config_monitor.provision_master / _coordinator / _worker / _all_nodes   *)
provision_call(op, pod) == [op |-> op, pod |-> pod]
provision_all_call == [op |-> "provision_all_nodes"]

(* add_master line 158 and add_coordinator line 172 *)
provision_node_above_threshold(n_workers) == n_workers > minimum_workers

provision_node(n_workers) == n_workers >= minimum_workers

(* add_worker lines 206-211: which provisioning call the worker step makes *)
worker_provisioning_late(n_workers, flag) ==
    IF n_workers > minimum_workers
    THEN IF ~flag THEN "provision_all_nodes" ELSE "provision_worker"
    ELSE "none"

(* A decision that tests the flag the wrong way round.                     *)
worker_provisioning_flag_inverted(n_workers, flag) ==
    IF n_workers >= minimum_workers
    THEN IF flag THEN "provision_all_nodes" ELSE "provision_worker"
    ELSE "none"

worker_provisioning(n_workers, flag) ==
    IF n_workers >= minimum_workers
    THEN IF ~flag THEN "provision_all_nodes" ELSE "provision_worker"
    ELSE "none"

VARIABLES
    citus_master_nodes,       \* self.citus_master_nodes
    citus_coordinator_nodes,  \* self.citus_coordinator_nodes
    citus_worker_nodes,       \* self.citus_worker_nodes
    init_provision,           \* self.init_provision
    pc,                       \* statement the event path is at
    event,                    \* event being (or last) processed by run
    fn,                       \* function currently executing
    pod_name,                 \* its argument
    replay,                   \* workers the replay loop has still to visit
    todo,                     \* targets the exec_on_* loop has still to visit
    polls,                    \* retried polls of the current gate (capped)
    last_poll,                \* history: the latest poll of this event
    pre,                      \* history: topology when the event was taken
    calls,                    \* history: collaborator calls of this event
    result,                   \* history: how the event's processing ended
    repeat,                   \* history: a DELETED event equal to the previous event
    reached,                  \* history: Workers.size has reached the threshold
    worker_added,             \* history: some pod has been inserted into Workers
    track,                    \* whether the two histories below are kept
    covered,                  \* history: <<role, pod>> members provisioned since insertion
    registered                \* history: <<master, worker>> whose latest worker query is add-node

vars == <<citus_master_nodes, citus_coordinator_nodes, citus_worker_nodes,
          init_provision, pc, event, fn, pod_name, replay, todo, polls,
          last_poll, pre, calls, result, repeat, reached, worker_added,
          track, covered, registered>>

audit == <<track, covered, registered>>

topology == <<citus_master_nodes, citus_coordinator_nodes, citus_worker_nodes,
              init_provision>>

Snapshot ==
    [masters |-> citus_master_nodes, coordinators |-> citus_coordinator_nodes,
     workers |-> citus_worker_nodes, init_provision |-> init_provision,
     reached |-> reached]

NoEvent == [type |-> "", citus_type |-> "", pod_name |-> 0]
NoPoll == [fn |-> "", pod_name |-> 0, outcome |-> "none"]

(* Manager.__init__; the histories across events are kept when tracking.   *)
Start(tracking) ==
    /\ citus_master_nodes = {}
    /\ citus_coordinator_nodes = {}
    /\ citus_worker_nodes = {}
    /\ init_provision = FALSE
    /\ pc = "run"
    /\ event = NoEvent
    /\ fn = "run"
    /\ pod_name = 0
    /\ replay = {}
    /\ todo = {}
    /\ polls = 0
    /\ last_poll = NoPoll
    /\ pre = [masters |-> {}, coordinators |-> {}, workers |-> {},
              init_provision |-> FALSE, reached |-> FALSE]
    /\ calls = EmptyBag
    /\ result = "none"
    /\ repeat = FALSE
    /\ reached = FALSE
    /\ worker_added = FALSE
    /\ track = tracking
    /\ covered = {}
    /\ registered = {}

Init == Start(FALSE)

HistoryInit == Start(TRUE)

(* A run that takes the next event wherever the previous one stands.      *)
TakeEvent_while_handling(ev) ==
    /\ event' = ev
    /\ pre' = Snapshot
    /\ calls' = EmptyBag
    /\ last_poll' = NoPoll
    /\ polls' = 0
    /\ repeat' = (ev = event /\ ev.type = "DELETED")

(* run line 92: the next event of the stream is taken; the history of the  *)
(* previous event is replaced.                                             *)
TakeEvent(ev) ==
    /\ pc = "run"
    /\ event' = ev
    /\ pre' = Snapshot
    /\ calls' = EmptyBag
    /\ last_poll' = NoPoll
    /\ polls' = 0
    /\ repeat' = (ev = event /\ ev.type = "DELETED")

(* Return of the handler to run (also through the except clause of lines   *)
(* 102-103): the event is done and the handler's locals are gone.          *)
Return(res) ==
    /\ pc' = "run"
    /\ fn' = "run"
    /\ pod_name' = 0
    /\ replay' = {}
    /\ todo' = {}
    /\ result' = res

(* A run whose except clause catches every exception.                      *)
Exit_caught_by_run(exc) ==
    /\ pc' = "run"
    /\ result' = exc

(* An exception other than ReadinessError is not caught by run (lines      *)
(* 100-103) nor by __main__: the process ends where it stands.             *)
Exit(exc) ==
    /\ pc' = "exited"
    /\ result' = exc

(* run, lines 94-99: events without handler are skipped.                   *)
run_continue(ev) ==
    /\ TakeEvent(ev)
    /\ \/ ev.citus_type = ""
       \/ ev.type \notin pod_interactions
       \/ ev.citus_type \notin handler
    /\ result' = "skipped"
    /\ UNCHANGED <<topology, pc, fn, pod_name, replay, todo, reached, worker_added, audit>>

(* A handler that registers the worker before its readiness is checked.    *)
run_added_register_first(ev) ==
    /\ TakeEvent(ev)
    /\ ev.type = "ADDED"
    /\ ev.citus_type \in handler
    /\ fn' = CASE ev.citus_type = master_label -> "add_master"
               [] ev.citus_type = coordinator_label -> "add_coordinator"
               [] ev.citus_type = worker_label -> "add_worker"
    /\ pod_name' = ev.pod_name
    /\ pc' = "check_pod_readiness"
    /\ result' = "running"
    /\ citus_worker_nodes' = IF ev.citus_type = worker_label
                             THEN citus_worker_nodes \cup {ev.pod_name}
                             ELSE citus_worker_nodes
    /\ UNCHANGED <<citus_master_nodes, citus_coordinator_nodes, init_provision,
                   replay, todo, reached, worker_added, audit>>

(* A handler that inserts the pod without calling check_pod_readiness.     *)
run_added_ungated(ev) ==
    /\ TakeEvent(ev)
    /\ ev.type = "ADDED"
    /\ ev.citus_type \in handler
    /\ fn' = CASE ev.citus_type = master_label -> "add_master"
               [] ev.citus_type = coordinator_label -> "add_coordinator"
               [] ev.citus_type = worker_label -> "add_worker"
    /\ pod_name' = ev.pod_name
    /\ pc' = "register"
    /\ result' = "running"
    /\ UNCHANGED <<topology, replay, todo, reached, worker_added, audit>>

(* run, lines 100-101, for an ADDED event: the handler of the role is      *)
(* entered (add_master line 153, add_coordinator 167, add_worker 199) and  *)
(* its first statement is check_pod_readiness(pod_name).                   *)
run_added(ev) ==
    /\ TakeEvent(ev)
    /\ ev.type = "ADDED"
    /\ ev.citus_type \in handler
    /\ fn' = CASE ev.citus_type = master_label -> "add_master"
               [] ev.citus_type = coordinator_label -> "add_coordinator"
               [] ev.citus_type = worker_label -> "add_worker"
    /\ pod_name' = ev.pod_name
    /\ pc' = "check_pod_readiness"
    /\ result' = "running"
    /\ UNCHANGED <<topology, replay, todo, reached, worker_added, audit>>

(* set.remove in place of set.discard: KeyError for an absent member.      *)
remove_master_keyerror(ev) ==
    /\ TakeEvent(ev)
    /\ ev.type = "DELETED"
    /\ ev.citus_type = master_label
    /\ citus_master_nodes' = citus_master_nodes \ {ev.pod_name}
    /\ IF ev.pod_name \in citus_master_nodes
       THEN /\ result' = "ok"
            /\ UNCHANGED pc
       ELSE Exit("KeyError")
    /\ covered' = covered \ {<<master_label, ev.pod_name>>}
    /\ UNCHANGED <<citus_coordinator_nodes, citus_worker_nodes, init_provision,
                   fn, pod_name, replay, todo, reached, worker_added,
                   track, registered>>

(* remove_master, lines 163-165 *)
remove_master(ev) ==
    /\ TakeEvent(ev)
    /\ ev.type = "DELETED"
    /\ ev.citus_type = master_label
    /\ citus_master_nodes' = citus_master_nodes \ {ev.pod_name}
    /\ result' = "ok"
    /\ covered' = covered \ {<<master_label, ev.pod_name>>}
    /\ UNCHANGED <<citus_coordinator_nodes, citus_worker_nodes, init_provision,
                   pc, fn, pod_name, replay, todo, reached, worker_added,
                   track, registered>>

(* A remove_coordinator that discards from the master set as well.         *)
remove_coordinator_both_sets(ev) ==
    /\ TakeEvent(ev)
    /\ ev.type = "DELETED"
    /\ ev.citus_type = coordinator_label
    /\ citus_coordinator_nodes' = citus_coordinator_nodes \ {ev.pod_name}
    /\ citus_master_nodes' = citus_master_nodes \ {ev.pod_name}
    /\ result' = "ok"
    /\ covered' = covered \ {<<coordinator_label, ev.pod_name>>}
    /\ UNCHANGED <<citus_worker_nodes, init_provision,
                   pc, fn, pod_name, replay, todo, reached, worker_added,
                   track, registered>>

(* remove_coordinator, lines 177-179 *)
remove_coordinator(ev) ==
    /\ TakeEvent(ev)
    /\ ev.type = "DELETED"
    /\ ev.citus_type = coordinator_label
    /\ citus_coordinator_nodes' = citus_coordinator_nodes \ {ev.pod_name}
    /\ result' = "ok"
    /\ covered' = covered \ {<<coordinator_label, ev.pod_name>>}
    /\ UNCHANGED <<citus_master_nodes, citus_worker_nodes, init_provision,
                   pc, fn, pod_name, replay, todo, reached, worker_added,
                   track, registered>>

(* A remove_worker that issues the queries but forgets the discard.       *)
remove_worker_keeps_member(ev) ==
    /\ TakeEvent(ev)
    /\ ev.type = "DELETED"
    /\ ev.citus_type = worker_label
    /\ fn' = "remove_worker"
    /\ pod_name' = ev.pod_name
    /\ todo' = citus_master_nodes
    /\ pc' = "exec_on_masters"
    /\ result' = "running"
    /\ UNCHANGED <<topology, replay, reached, worker_added, audit>>

(* remove_worker, lines 213-216: discard, then enter exec_on_masters.      *)
remove_worker(ev) ==
    /\ TakeEvent(ev)
    /\ ev.type = "DELETED"
    /\ ev.citus_type = worker_label
    /\ citus_worker_nodes' = citus_worker_nodes \ {ev.pod_name}
    /\ fn' = "remove_worker"
    /\ pod_name' = ev.pod_name
    /\ todo' = citus_master_nodes
    /\ pc' = "exec_on_masters"
    /\ result' = "running"
    /\ UNCHANGED <<citus_master_nodes, citus_coordinator_nodes, init_provision,
                   replay, reached, worker_added, audit>>

(* check_pod_readiness, lines 119-137: one call of request_pod_readiness.  *)
(* The retry decorator calls it again after the fixed wait when            *)
(* retry_on_exception holds of the exception.  Any other exception leaves  *)
(* the decorator: an ApiException is caught at line 135 and re-raised as   *)
(* ReadinessError, which run catches at line 102; an exception of another  *)
(* class would pass through both.                                          *)
request_pod_readiness(outcome) ==
    /\ pc = "check_pod_readiness"
    /\ last_poll' = [fn |-> fn, pod_name |-> pod_name, outcome |-> outcome]
    /\ IF outcome = "Ready"
       THEN /\ pc' = "register"
            /\ polls' = 0
            /\ UNCHANGED <<fn, pod_name, result, replay, todo>>
       ELSE IF retry_on_exception(PollException(outcome))
       THEN /\ polls' = IF polls < MaxPolls THEN polls + 1 ELSE polls
            /\ UNCHANGED <<pc, fn, pod_name, result, replay, todo>>
       ELSE IF PollException(outcome) = "ApiException"
       THEN /\ Return("ReadinessError")
            /\ polls' = 0
       ELSE /\ Exit(PollException(outcome))
            /\ UNCHANGED <<polls, fn, pod_name, replay, todo>>
    /\ UNCHANGED <<topology, event, pre, calls, repeat, reached, worker_added, audit>>

check_pod_readiness == \E outcome \in PollOutcomes : request_pod_readiness(outcome)

(* add_master, line 156 *)
add_master_register ==
    /\ pc = "register"
    /\ fn = "add_master"
    /\ citus_master_nodes' = citus_master_nodes \cup {pod_name}
    /\ pc' = "set_coordinator"
    /\ UNCHANGED <<citus_coordinator_nodes, citus_worker_nodes, init_provision,
                   event, fn, pod_name, replay, todo, polls, last_poll, pre,
                   calls, result, repeat, reached, worker_added, audit>>

(* add_coordinator, line 170 *)
add_coordinator_register ==
    /\ pc = "register"
    /\ fn = "add_coordinator"
    /\ citus_coordinator_nodes' = citus_coordinator_nodes \cup {pod_name}
    /\ pc' = "set_coordinator"
    /\ UNCHANGED <<citus_master_nodes, citus_worker_nodes, init_provision,
                   event, fn, pod_name, replay, todo, polls, last_poll, pre,
                   calls, result, repeat, reached, worker_added, audit>>

(* add_worker, lines 202-204: add to the set, then enter exec_on_masters.  *)
add_worker_register ==
    /\ pc = "register"
    /\ fn = "add_worker"
    /\ citus_worker_nodes' = citus_worker_nodes \cup {pod_name}
    /\ reached' = (reached \/ Cardinality(citus_worker_nodes') >= minimum_workers)
    /\ worker_added' = TRUE
    /\ todo' = citus_master_nodes
    /\ pc' = "exec_on_masters"
    /\ UNCHANGED <<citus_master_nodes, citus_coordinator_nodes, init_provision,
                   event, fn, pod_name, replay, polls, last_poll, pre,
                   calls, result, repeat, audit>>

(* The members of Masters and Coordinators a provisioning call covers.     *)
Provisioned(call) ==
    LET members == ({master_label} \X citus_master_nodes)
                       \cup ({coordinator_label} \X citus_coordinator_nodes)
    IN  IF call.op = "provision_all_nodes" THEN members
        ELSE IF call.op = "provision_master"
        THEN {<<master_label, call.pod>>} \cap members
        ELSE IF call.op = "provision_coordinator"
        THEN {<<coordinator_label, call.pod>>} \cap members
        ELSE {}

(* The <<master, worker>> pairs whose latest worker query is add-node,     *)
(* after the call.                                                         *)
Registered(call) ==
    IF call.op = "execute_query" /\ call.service = master_service
                                 /\ call.query \in {ADD_NODE, REMOVE_NODE}
    THEN LET worker == CHOOSE w \in Pods :
                           get_host_name(w, worker_service) = call.host
         IN  IF call.query = ADD_NODE
             THEN registered \cup {<<call.target, worker>>}
             ELSE registered \ {<<call.target, worker>>}
    ELSE registered

(* A call that returned is entered in the histories.                       *)
Record(call) ==
    /\ calls' = calls (+) SetToBag({call})
    /\ covered' = IF track THEN covered \cup Provisioned(call) ELSE covered
    /\ registered' = IF track THEN Registered(call) ELSE registered
    /\ UNCHANGED track

(* One collaborator call: it returns and is recorded, or it raises.        *)
Collaborator(call, ok, next_pc) ==
    IF ok
    THEN /\ Record(call)
         /\ pc' = next_pc
         /\ UNCHANGED result
    ELSE /\ Exit(IF call.op = "execute_query" THEN "QueryError" ELSE "ProvisionError")
         /\ UNCHANGED <<calls, audit>>

(* set_coordinator_master, lines 181-188 *)
set_coordinator_master(ok) ==
    /\ pc = "set_coordinator"
    /\ fn = "add_master"
    /\ Collaborator(execute_query(pod_name, master_service, SET_COORDINATOR,
                        [host |-> get_host_name(pod_name, master_service),
                         port |-> pg_port]),
                    ok, "provision")
    /\ UNCHANGED <<topology, event, fn, pod_name, replay, todo, polls,
                   last_poll, pre, repeat, reached, worker_added>>

(* set_coordinator_coordinator, lines 190-197 *)
set_coordinator_coordinator(ok) ==
    /\ pc = "set_coordinator"
    /\ fn = "add_coordinator"
    /\ Collaborator(execute_query(pod_name, coordinator_service, SET_COORDINATOR,
                        [host |-> get_host_name(pod_name, coordinator_service),
                         port |-> pg_port]),
                    ok, "provision")
    /\ UNCHANGED <<topology, event, fn, pod_name, replay, todo, polls,
                   last_poll, pre, repeat, reached, worker_added>>

(* add_master, lines 158-160: provision the master when the threshold is   *)
(* met, then start the loop over self.citus_worker_nodes.                  *)
add_master_provision(ok) ==
    /\ pc = "provision"
    /\ fn = "add_master"
    /\ IF provision_node(Cardinality(citus_worker_nodes))
       THEN Collaborator(provision_call("provision_master", pod_name), ok, "replay")
       ELSE /\ ok
            /\ pc' = "replay"
            /\ UNCHANGED <<calls, result, audit>>
    /\ replay' = IF pc' = "replay" THEN citus_worker_nodes ELSE replay
    /\ UNCHANGED <<topology, event, fn, pod_name, todo, polls,
                   last_poll, pre, repeat, reached, worker_added>>

(* add_coordinator, lines 172-174 *)
add_coordinator_provision(ok) ==
    /\ pc = "provision"
    /\ fn = "add_coordinator"
    /\ IF provision_node(Cardinality(citus_worker_nodes))
       THEN Collaborator(provision_call("provision_coordinator", pod_name), ok, "replay")
       ELSE /\ ok
            /\ pc' = "replay"
            /\ UNCHANGED <<calls, result, audit>>
    /\ replay' = IF pc' = "replay" THEN citus_worker_nodes ELSE replay
    /\ UNCHANGED <<topology, event, fn, pod_name, todo, polls,
                   last_poll, pre, repeat, reached, worker_added>>

(* add_master lines 160-161 / add_coordinator lines 174-175: the next      *)
(* worker of the set, in the set's iteration order, is handed to           *)
(* add_worker (whose first statement is the gate, line 200); the handler   *)
(* returns when the set is exhausted.                                      *)
replay_loop ==
    /\ pc = "replay"
    /\ IF replay = {}
       THEN /\ Return("ok")
            /\ UNCHANGED polls
       ELSE \E worker_pod \in replay :
              /\ replay' = replay \ {worker_pod}
              /\ fn' = "add_worker"
              /\ pod_name' = worker_pod
              /\ pc' = "check_pod_readiness"
              /\ UNCHANGED <<todo, polls, result>>
    /\ UNCHANGED <<topology, event, last_poll, pre, calls, repeat, reached, worker_added, audit>>

(* exec_on_masters, lines 223-231: one iteration of the loop; the query    *)
(* is the one the caller passed (add_worker line 204, remove_worker 216).  *)
(* After the loop add_worker goes on to exec_on_coordinators (line 205)    *)
(* and remove_worker returns (line 221).                                   *)
exec_on_masters(ok) ==
    /\ pc = "exec_on_masters"
    /\ IF todo = {}
       THEN /\ ok
            /\ IF fn = "add_worker"
               THEN /\ pc' = "exec_on_coordinators"
                    /\ todo' = citus_coordinator_nodes
                    /\ UNCHANGED <<fn, pod_name, result, replay>>
               ELSE Return("ok")
            /\ UNCHANGED <<calls, audit>>
       ELSE \E master \in todo :
              /\ todo' = todo \ {master}
              /\ Collaborator(execute_query(master, master_service,
                                  IF fn = "add_worker" THEN ADD_NODE ELSE REMOVE_NODE,
                                  worker_query_params(pod_name)),
                              ok, "exec_on_masters")
              /\ UNCHANGED <<fn, pod_name, replay>>
    /\ UNCHANGED <<topology, event, polls, last_poll, pre, repeat, reached, worker_added>>

(* exec_on_coordinators, lines 233-241, called from add_worker line 205.   *)
exec_on_coordinators(ok) ==
    /\ pc = "exec_on_coordinators"
    /\ IF todo = {}
       THEN /\ ok
            /\ pc' = "provision"
            /\ UNCHANGED <<todo, calls, result, audit>>
       ELSE \E coordinator \in todo :
              /\ todo' = todo \ {coordinator}
              /\ Collaborator(execute_query(coordinator, coordinator_service, ADD_NODE,
                                  worker_query_params(pod_name)),
                              ok, "exec_on_coordinators")
    /\ UNCHANGED <<topology, event, fn, pod_name, replay, polls, last_poll,
                   pre, repeat, reached, worker_added>>

(* add_worker returns: to run for a Worker ADDED event, to the loop of     *)
(* add_master / add_coordinator that called it otherwise.                  *)
add_worker_return ==
    IF event.citus_type = worker_label
    THEN Return("ok")
    ELSE /\ pc' = "replay"
         /\ fn' = IF event.citus_type = master_label
                  THEN "add_master" ELSE "add_coordinator"
         /\ pod_name' = event.pod_name
         /\ UNCHANGED <<result, replay, todo>>

(* add_worker, lines 206-211: the provisioning decision.                   *)
add_worker_provision(ok) ==
    /\ pc = "provision"
    /\ fn = "add_worker"
    /\ LET decision == worker_provisioning(Cardinality(citus_worker_nodes),
                                           init_provision)
       IN  IF decision = "none"
           THEN /\ ok
                /\ add_worker_return
                /\ UNCHANGED <<calls, init_provision, audit>>
           ELSE IF ~ok
           THEN /\ Exit("ProvisionError")
                /\ UNCHANGED <<calls, init_provision, fn, pod_name, replay, todo, audit>>
           ELSE IF decision = "provision_all_nodes"
           THEN /\ Record(provision_all_call)
                /\ init_provision' = TRUE
                /\ add_worker_return
           ELSE /\ Record(provision_call("provision_worker", pod_name))
                /\ add_worker_return
                /\ UNCHANGED init_provision
    /\ UNCHANGED <<citus_master_nodes, citus_coordinator_nodes, citus_worker_nodes,
                   event, polls, last_poll, pre, repeat, reached, worker_added>>

Next ==
    \/ \E ev \in Events : run_continue(ev)
    \/ \E ev \in Events : run_added(ev)
    \/ \E ev \in Events : remove_master(ev)
    \/ \E ev \in Events : remove_coordinator(ev)
    \/ \E ev \in Events : remove_worker(ev)
    \/ check_pod_readiness
    \/ add_master_register
    \/ add_coordinator_register
    \/ add_worker_register
    \/ \E ok \in BOOLEAN : set_coordinator_master(ok)
    \/ \E ok \in BOOLEAN : set_coordinator_coordinator(ok)
    \/ \E ok \in BOOLEAN : add_master_provision(ok)
    \/ \E ok \in BOOLEAN : add_coordinator_provision(ok)
    \/ replay_loop
    \/ \E ok \in BOOLEAN : exec_on_masters(ok)
    \/ \E ok \in BOOLEAN : exec_on_coordinators(ok)
    \/ \E ok \in BOOLEAN : add_worker_provision(ok)

Spec == Init /\ [][Next]_vars

(* The same program with the histories across events kept.                 *)
HistorySpec == HistoryInit /\ [][Next]_vars

(* Poll outcomes that end the gate: all containers ready, or an            *)
(* ApiException, which the retry decorator does not retry.                 *)
DefinitiveOutcomes == {o \in PollOutcomes : o = "Ready" \/ ~retry_on_exception(PollException(o))}

(* The statements of a handler between taking the event and the gate's     *)
(* polls: the one thread of run executes them without waiting.             *)
HandlerStep ==
    \/ add_master_register
    \/ add_coordinator_register
    \/ add_worker_register
    \/ \E ok \in BOOLEAN : set_coordinator_master(ok)
    \/ \E ok \in BOOLEAN : set_coordinator_coordinator(ok)
    \/ \E ok \in BOOLEAN : add_master_provision(ok)
    \/ \E ok \in BOOLEAN : add_coordinator_provision(ok)
    \/ replay_loop
    \/ \E ok \in BOOLEAN : exec_on_masters(ok)
    \/ \E ok \in BOOLEAN : exec_on_coordinators(ok)
    \/ \E ok \in BOOLEAN : add_worker_provision(ok)

(* The thread keeps running, and every poll sequence of the gate           *)
(* eventually yields a definitive outcome.                                 *)
LiveSpec ==
    /\ Spec
    /\ WF_vars(HandlerStep)
    /\ WF_vars(\E outcome \in DefinitiveOutcomes : request_pod_readiness(outcome))

(* ======================================================================= *)
(* Properties                                                              *)
(* ======================================================================= *)

(* The event's handler has returned to run (normally or through the        *)
(* except clause).                                                         *)
Handled == pc = "run" /\ result \in {"ok", "ReadinessError"}

SetsAsTaken ==
    /\ citus_master_nodes = pre.masters
    /\ citus_coordinator_nodes = pre.coordinators
    /\ citus_worker_nodes = pre.workers

TopologyAsTaken == SetsAsTaken /\ init_provision = pre.init_provision

IsEvent(type, citus_type) == event.type = type /\ event.citus_type = citus_type

AddNodeQueries ==
    {c \in BagToSet(calls) : c.op = "execute_query" /\ c.query = ADD_NODE}

ProvisionCalls == {c \in BagToSet(calls) : c.op # "execute_query"}

ApiExceptionOutcomes == {"NotFound", "ApiError"}
RetriedOutcomes == {"NotReady", "Unreachable"}

(* The add_master / add_coordinator / add_worker step whose gate made the  *)
(* latest poll has not inserted its pod, and no add-node query names it.   *)
GatedStepDidNotRegister ==
    /\ last_poll.fn = "add_master" => citus_master_nodes = pre.masters
    /\ last_poll.fn = "add_coordinator" => citus_coordinator_nodes = pre.coordinators
    /\ last_poll.fn = "add_worker" =>
         /\ citus_worker_nodes = pre.workers
         /\ \A c \in AddNodeQueries :
              c.host # get_host_name(last_poll.pod_name, worker_service)

(* ---- C1 ---------------------------------------------------------------- *)
(* C1: a Worker DELETED event for a pod that was never added to Workers    *)
(* issues no query and leaves Masters, Coordinators, Workers and the       *)
(* provisioning flag as they were.  (Stated for the streams in which no    *)
(* worker at all has been added, so the pod of the event never was.)       *)
C1_DeletedUnknownWorkerIsNoOp ==
    (IsEvent("DELETED", worker_label) /\ ~worker_added)
        => (calls = EmptyBag /\ TopologyAsTaken)

C4_ReadinessErrorLeavesNodeAbsent ==
    (/\ pc = "run"
     /\ result = "ReadinessError"
     /\ event.type = "ADDED"
     /\ event.pod_name \notin (pre.masters \cup pre.coordinators \cup pre.workers))
        => event.pod_name \notin
             (citus_master_nodes \cup citus_coordinator_nodes \cup citus_worker_nodes)

(* ---- C5 ---------------------------------------------------------------- *)
(* C5: a Master ADDED event processed to the end with N workers known and  *)
(* no other master or coordinator issues exactly N add-node queries: one   *)
(* per worker, each sent to the new master in the master service scope,    *)
(* with the worker's host resolved in the worker service scope and the     *)
(* configured port.                                                        *)
C5_MasterAddedReplaysEachWorkerOnce ==
    (/\ pc = "run"
     /\ result = "ok"
     /\ IsEvent("ADDED", master_label)
     /\ pre.masters \subseteq {event.pod_name}
     /\ pre.coordinators = {})
        => /\ AddNodeQueries =
                {execute_query(event.pod_name, master_service, ADD_NODE,
                     [host |-> get_host_name(w, worker_service), port |-> pg_port]) :
                     w \in pre.workers}
           /\ \A c \in AddNodeQueries : CopiesIn(c, calls) = 1
           /\ Cardinality(AddNodeQueries) = Cardinality(pre.workers)

C5_Witness ==
    /\ pc = "run"
    /\ result = "ok"
    /\ IsEvent("ADDED", master_label)
    /\ pre.masters = {}
    /\ pre.coordinators = {}
    /\ Cardinality(pre.workers) = 2
    /\ Cardinality(AddNodeQueries) = 2

(* ---- C6 ---------------------------------------------------------------- *)
(* C6: init_provision starts false; once true it stays true (so it turns   *)
(* true at most once, also when workers are deleted afterwards); it turns  *)
(* true only during a Worker ADDED event that makes Workers.size reach the *)
(* threshold for the first time; and between events it is true exactly     *)
(* when the threshold has been reached, so that event does set it.         *)
C6_FlagSetOnceOnFirstThreshold ==
    /\ init_provision = FALSE
    /\ [][init_provision => init_provision']_vars
    /\ [][(~init_provision /\ init_provision')
            => /\ IsEvent("ADDED", worker_label)
               /\ ~pre.reached
               /\ Cardinality(pre.workers) < minimum_workers
               /\ Cardinality(citus_worker_nodes') >= minimum_workers]_vars
    /\ [](pc = "run" => (init_provision <=> reached))

(* The flag is still set after the workers dropped below the threshold.    *)
C6_Witness ==
    /\ pc = "run"
    /\ IsEvent("DELETED", worker_label)
    /\ result = "ok"
    /\ init_provision
    /\ Cardinality(citus_worker_nodes) < minimum_workers

(* ---- C7 ---------------------------------------------------------------- *)
(* C7: a Worker ADDED event that ends with the gate's ReadinessError       *)
(* leaves Workers (and the other sets) as they were, does not insert the   *)
(* pod, leaves the flag unchanged and makes no collaborator call at all    *)
(* (no provisioning call, no add-node query).                              *)
C7_WorkerGateFailureChangesNothing ==
    (pc = "run" /\ result = "ReadinessError" /\ IsEvent("ADDED", worker_label))
        => /\ TopologyAsTaken
           /\ event.pod_name \notin pre.workers => event.pod_name \notin citus_worker_nodes
           /\ calls = EmptyBag

(* The failed worker would have crossed the threshold with a master known. *)
C7_Witness ==
    /\ pc = "run"
    /\ result = "ReadinessError"
    /\ IsEvent("ADDED", worker_label)
    /\ event.pod_name \notin pre.workers
    /\ Cardinality(pre.workers) = minimum_workers - 1
    /\ pre.masters # {}

(* ---- C8 ---------------------------------------------------------------- *)
PreSet(citus_type) ==
    CASE citus_type = master_label -> pre.masters
      [] citus_type = coordinator_label -> pre.coordinators
      [] citus_type = worker_label -> pre.workers

NodeProvisionCalls ==
    {c \in ProvisionCalls : c.op \in {"provision_master", "provision_coordinator"}}

OwnProvisionCall ==
    provision_call(IF event.citus_type = master_label
                   THEN "provision_master" ELSE "provision_coordinator",
                   event.pod_name)

(* C9: a Master (Coordinator) ADDED event taken with Workers.size at or    *)
(* above the threshold has made exactly one provision_master               *)
(* (provision_coordinator) call, for its pod, by the time the replay       *)
(* starts, and when it is processed to the end every worker in Workers has *)
(* had its add-node query sent once to every master and coordinator;       *)
(* taken below the threshold it makes no such provisioning call.  A Worker *)
(* ADDED event that brings Workers to the threshold with the flag unset    *)
(* sets the flag and calls provision_all_nodes once.                       *)
C9_NodeProvisionedAtThresholdThenReplay ==
    /\ (event.type = "ADDED" /\ event.citus_type \in {master_label, coordinator_label})
         => /\ citus_worker_nodes = pre.workers
            /\ Cardinality(pre.workers) < minimum_workers => NodeProvisionCalls = {}
            /\ (Cardinality(pre.workers) >= minimum_workers
                  /\ (pc = "replay" \/ fn = "add_worker" \/ (pc = "run" /\ result = "ok")))
                 => /\ NodeProvisionCalls = {OwnProvisionCall}
                    /\ CopiesIn(OwnProvisionCall, calls) = 1
            /\ (pc = "run" /\ result = "ok")
                 => \A w \in citus_worker_nodes :
                      /\ \A m \in citus_master_nodes :
                           CopiesIn(execute_query(m, master_service, ADD_NODE,
                                        [host |-> get_host_name(w, worker_service),
                                         port |-> pg_port]), calls) = 1
                      /\ \A c \in citus_coordinator_nodes :
                           CopiesIn(execute_query(c, coordinator_service, ADD_NODE,
                                        [host |-> get_host_name(w, worker_service),
                                         port |-> pg_port]), calls) = 1
    /\ (/\ IsEvent("ADDED", worker_label)
        /\ pc = "run"
        /\ result = "ok"
        /\ ~pre.init_provision
        /\ Cardinality(citus_worker_nodes) >= minimum_workers)
         => /\ init_provision
            /\ CopiesIn(provision_all_call, calls) = 1

(* Two workers were added, the flag is set, and the first master arrives.  *)
C9_Witness ==
    /\ pc = "run"
    /\ result = "ok"
    /\ IsEvent("ADDED", master_label)
    /\ pre.masters = {}
    /\ pre.coordinators = {}
    /\ pre.workers = {1, 2}
    /\ pre.init_provision
    /\ CopiesIn(OwnProvisionCall, calls) = 1
    /\ Cardinality(AddNodeQueries) = 2

(* ---- C10 --------------------------------------------------------------- *)
(* C10: a Master (Coordinator) DELETED event returns after removing the    *)
(* pod from Masters (Coordinators) only: no query, no provisioning call,   *)
(* the other two sets and the flag unchanged; when the pod was the only    *)
(* master, Masters is empty afterwards.                                    *)
C10_NodeDeletedTouchesOwnSetOnly ==
    (event.type = "DELETED" /\ event.citus_type \in {master_label, coordinator_label})
        => /\ pc = "run"
           /\ result = "ok"
           /\ calls = EmptyBag
           /\ citus_worker_nodes = pre.workers
           /\ init_provision = pre.init_provision
           /\ IF event.citus_type = master_label
              THEN /\ citus_master_nodes = pre.masters \ {event.pod_name}
                   /\ citus_coordinator_nodes = pre.coordinators
                   /\ pre.masters \subseteq {event.pod_name} => citus_master_nodes = {}
              ELSE /\ citus_coordinator_nodes = pre.coordinators \ {event.pod_name}
                   /\ citus_master_nodes = pre.masters

(* The only master is deleted while workers and a coordinator are known.   *)
C10_Witness ==
    /\ IsEvent("DELETED", master_label)
    /\ pre.masters = {event.pod_name}
    /\ citus_master_nodes = {}
    /\ pre.workers # {}
    /\ pre.coordinators # {}

(* ---- C11 --------------------------------------------------------------- *)
(* C11: within one event every readiness-gate check comes before any       *)
(* topology-set mutation and before any query or provisioning call of the  *)
(* event (so while the gate is polling, the sets are as they were taken    *)
(* and no call has been made), and a set mutation comes before the queries *)
(* that depend on it (an add-node query names a worker that is in Workers  *)
(* and goes to a member of Masters or Coordinators).                       *)
C11_GateBeforeMutationBeforeQuery ==
    /\ pc = "check_pod_readiness" => (SetsAsTaken /\ calls = EmptyBag)
    /\ \A c \in AddNodeQueries :
         /\ \E w \in citus_worker_nodes : c.host = get_host_name(w, worker_service)
         /\ c.service = master_service => c.target \in citus_master_nodes
         /\ c.service = coordinator_service => c.target \in citus_coordinator_nodes

(* ---- C12 --------------------------------------------------------------- *)
(* C12: a pod enters Masters, Coordinators or Workers only in the          *)
(* registration statement of the handler of that role, and only when the   *)
(* latest poll of that handler's gate for that very pod returned ready; so *)
(* every member of a set was inserted after its gate had returned.         *)
C12_InsertedOnlyAfterGate ==
    [][/\ \A p \in citus_master_nodes' \ citus_master_nodes :
            /\ pc = "register"
            /\ last_poll = [fn |-> "add_master", pod_name |-> p, outcome |-> "Ready"]
       /\ \A p \in citus_coordinator_nodes' \ citus_coordinator_nodes :
            /\ pc = "register"
            /\ last_poll = [fn |-> "add_coordinator", pod_name |-> p, outcome |-> "Ready"]
       /\ \A p \in citus_worker_nodes' \ citus_worker_nodes :
            /\ pc = "register"
            /\ last_poll = [fn |-> "add_worker", pod_name |-> p, outcome |-> "Ready"]
      ]_vars

(* A master has just been inserted, after a gate that had to retry.        *)
C12_Witness ==
    /\ pc = "set_coordinator"
    /\ fn = "add_master"
    /\ pod_name \in citus_master_nodes
    /\ pod_name \notin pre.masters
    /\ last_poll = [fn |-> "add_master", pod_name |-> pod_name, outcome |-> "Ready"]

(* ---- C13 --------------------------------------------------------------- *)
(* C13: Masters, Coordinators and Workers are pairwise disjoint in every   *)
(* reachable state.                                                        *)
C13_RoleSetsDisjoint ==
    /\ citus_master_nodes \cap citus_coordinator_nodes = {}
    /\ citus_master_nodes \cap citus_worker_nodes = {}
    /\ citus_coordinator_nodes \cap citus_worker_nodes = {}

(* ---- C14 --------------------------------------------------------------- *)
UncaughtExceptions ==
    {"QueryError", "ProvisionError", "KeyError", "AssertionError", "ConnectionError"}

(* C14: a handler that raised ReadinessError leaves run in its loop, and   *)
(* the step that follows takes the next event from the topology exactly as *)
(* the failed handler left it; any other exception raised in a handler     *)
(* ends the process, after which no step is taken (no later event is       *)
(* processed).                                                             *)
C14_OnlyReadinessErrorIsCaught ==
    /\ [](result = "ReadinessError" => pc = "run")
    /\ [](result \in UncaughtExceptions <=> pc = "exited")
    /\ [][pc # "exited"]_vars
    /\ [][(pc = "run" /\ result = "ReadinessError")
            => /\ event' \in Events
               /\ pre'.masters = citus_master_nodes
               /\ pre'.coordinators = citus_coordinator_nodes
               /\ pre'.workers = citus_worker_nodes
               /\ pre'.init_provision = init_provision]_vars

(* A ReadinessError in the replay left a master registered; run goes on.   *)
C14_Witness ==
    /\ pc = "run"
    /\ result = "ReadinessError"
    /\ citus_master_nodes # pre.masters

(* ---- C15 --------------------------------------------------------------- *)
AddNodeQuery(target, service, worker) ==
    execute_query(target, service, ADD_NODE,
                  [host |-> get_host_name(worker, worker_service), port |-> pg_port])

(* C15: when the worker step for w (direct or in a replay) arrives at its  *)
(* provisioning decision, w is in Workers and one add-node query for w has *)
(* gone to every member of Masters and of Coordinators; the decision then  *)
(* makes no call below the threshold, calls provision_all_nodes and sets   *)
(* the flag at the threshold with the flag unset, and calls                *)
(* provision_worker(w) otherwise.  provision_all_nodes is only ever called *)
(* in a step that turns the flag from false to true, and the flag never    *)
(* turns back, so it is called at most once in a run; and no provisioning  *)
(* call of any kind is on record while Workers.size is below the           *)
(* threshold.                                                              *)
C15_WorkerStepRegistersThenDecides ==
    /\ [](pc = "provision" /\ fn = "add_worker"
            => /\ pod_name \in citus_worker_nodes
               /\ \A m \in citus_master_nodes :
                    CopiesIn(AddNodeQuery(m, master_service, pod_name), calls) = 1
               /\ \A c \in citus_coordinator_nodes :
                    CopiesIn(AddNodeQuery(c, coordinator_service, pod_name), calls) = 1)
    /\ [][(pc = "provision" /\ fn = "add_worker" /\ pc' # "exited")
            => IF Cardinality(citus_worker_nodes) < minimum_workers
               THEN calls' = calls /\ init_provision' = init_provision
               ELSE IF ~init_provision
               THEN /\ calls' = calls (+) SetToBag({provision_all_call})
                    /\ init_provision'
               ELSE /\ calls' = calls (+)
                          SetToBag({provision_call("provision_worker", pod_name)})
                    /\ init_provision']_vars
    /\ [][CopiesIn(provision_all_call, calls') > CopiesIn(provision_all_call, calls)
            => (~init_provision /\ init_provision')]_vars
    /\ [][init_provision => init_provision']_vars
    /\ [](ProvisionCalls # {} => Cardinality(citus_worker_nodes) >= minimum_workers)

(* A replayed worker step has just called provision_worker.                *)
C15_Witness ==
    /\ pc = "replay"
    /\ IsEvent("ADDED", coordinator_label)
    /\ pre.masters # {}
    /\ \E w \in citus_worker_nodes :
         /\ CopiesIn(provision_call("provision_worker", w), calls) = 1
         /\ CopiesIn(AddNodeQuery(event.pod_name, coordinator_service, w), calls) = 1

(* ---- C16 --------------------------------------------------------------- *)
RemoveNodeQuery(master, worker) ==
    execute_query(master, master_service, REMOVE_NODE,
                  [host |-> get_host_name(worker, worker_service), port |-> pg_port])

(* C16: during and after a Worker DELETED event for w, w is out of Workers *)
(* (the discard comes before the first query), Masters, Coordinators and   *)
(* the flag are as they were taken, every call on record is the compound   *)
(* deregistration query for w sent once to a member of Masters in the      *)
(* master service scope (none goes to a coordinator), and when the handler *)
(* has returned every member of Masters has received it exactly once.      *)
C16_WorkerDeletedDeregistersOnMasters ==
    IsEvent("DELETED", worker_label)
        => /\ citus_worker_nodes = pre.workers \ {event.pod_name}
           /\ citus_master_nodes = pre.masters
           /\ citus_coordinator_nodes = pre.coordinators
           /\ init_provision = pre.init_provision
           /\ \A c \in BagToSet(calls) :
                /\ \E m \in citus_master_nodes : c = RemoveNodeQuery(m, event.pod_name)
                /\ CopiesIn(c, calls) = 1
           /\ (pc = "run" /\ result = "ok")
                => \A m \in citus_master_nodes :
                     CopiesIn(RemoveNodeQuery(m, event.pod_name), calls) = 1

(* A known worker is deleted with a master and another coordinator known.  *)
C16_Witness ==
    /\ pc = "run"
    /\ result = "ok"
    /\ IsEvent("DELETED", worker_label)
    /\ event.pod_name \in pre.workers
    /\ pre.masters # {}
    /\ pre.coordinators \ pre.masters # {}
    /\ calls # EmptyBag

(* ---- C17 --------------------------------------------------------------- *)
(* C17: at an event boundary, a master inserted by the event just handled  *)
(* (also one dropped by a ReadinessError) has been sent an add-node query  *)
(* for every worker currently known.                                       *)
C17_RegistryConsistentAtBoundary ==
    ( /\ pc = "run"
      /\ result \in {"ok", "ReadinessError"}
      /\ IsEvent("ADDED", master_label)
      /\ event.pod_name \notin pre.masters
      /\ event.pod_name \in citus_master_nodes )
        => \A w \in citus_worker_nodes :
             CopiesIn(AddNodeQuery(event.pod_name, master_service, w), calls) >= 1

(* ---- C18 --------------------------------------------------------------- *)
Members ==
    ({master_label} \X citus_master_nodes)
        \cup ({coordinator_label} \X citus_coordinator_nodes)

(* C18: whenever the threshold is met after an event has been processed    *)
(* to its end, every current member of Masters and Coordinators has been   *)
(* covered by a provisioning call issued since its latest insertion.       *)
C18_ProvisioningCoverageAtBoundary ==
    (track /\ pc = "run" /\ result = "ok"
           /\ Cardinality(citus_worker_nodes) >= minimum_workers)
        => Members \subseteq covered

(* ---- C19 --------------------------------------------------------------- *)
(* C19: at every event boundary, for a master in Masters and an identifier *)
(* not in Workers, the latest worker query issued to that master about the *)
(* identifier is not add-node.                                             *)
C19_NoStaleWorkerRegistration ==
    (track /\ pc = "run")
        => \A m \in citus_master_nodes : \A w \in Pods \ citus_worker_nodes :
             <<m, w>> \notin registered

(* ---- C20 --------------------------------------------------------------- *)
NoEventTakenWhileHandling ==
    [][pc # "run" => (event' = event /\ pre' = pre)]_vars

(* C20 as stated: no event is taken while a handler (its gate included) is *)
(* still at work, and every event taken is eventually handled to           *)
(* completion, returning to run.                                           *)
C20_EveryEventHandledToCompletion ==
    /\ NoEventTakenWhileHandling
    /\ result = "running" ~> (pc = "run" /\ result \in {"ok", "ReadinessError"})

(* C20 amended: no event is taken while a handler (its gate included) is   *)
(* still at work, and every event taken is eventually handled to           *)
(* completion or ends the process with an exception run does not catch.    *)
C20_EveryEventHandledOrFatal ==
    /\ NoEventTakenWhileHandling
    /\ result = "running" ~> \/ pc = "run" /\ result \in {"ok", "ReadinessError"}
                             \/ pc = "exited" /\ result \in UncaughtExceptions

(* The gate of a replayed worker is retrying inside a Master ADDED event.  *)
C20_Witness ==
    /\ pc = "check_pod_readiness"
    /\ result = "running"
    /\ IsEvent("ADDED", master_label)
    /\ fn = "add_worker"
    /\ polls = MaxPolls
    /\ last_poll.outcome \in RetriedOutcomes

TypeOK ==
    /\ track \in BOOLEAN
    /\ covered \subseteq ({master_label} \X citus_master_nodes)
                              \cup ({coordinator_label} \X citus_coordinator_nodes)
    /\ registered \subseteq Pods \X Pods
    /\ citus_master_nodes \subseteq Pods
    /\ citus_coordinator_nodes \subseteq Pods
    /\ citus_worker_nodes \subseteq Pods
    /\ init_provision \in BOOLEAN
    /\ pc \in {"run", "check_pod_readiness", "register", "set_coordinator",
               "provision", "replay", "exec_on_masters", "exec_on_coordinators",
               "exited"}
    /\ polls \in 0..MaxPolls
====
